---- MODULE Spec2Model ----
(***************************************************************************)
(* A model of phi/math/_optimize.py: the solve specification (Solve), the  *)
(* solve result (SolveInfo), the recording tapes (SolveTape) with the      *)
(* process-wide list of active tapes (_SOLVE_TAPES), and the two solve     *)
(* cores, minimize and _linear_solve_forward.                              *)
(*                                                                         *)
(* Tensors are records [available, traj, val]: `available` is what         *)
(* all_available() tests, `traj` says whether the tensor has a leading     *)
(* trajectory dimension, and `val` lists the entries along that dimension  *)
(* (one entry when there is no trajectory dimension).  An entry of a flag  *)
(* tensor (converged, diverged) is a sequence of booleans over the batch.  *)
(* Python's None is the empty sequence, a native value v is <<v>>.         *)
(*                                                                         *)
(* Solve objects live on a heap (objects) and are referred to by their     *)
(* position; the entry points minimize, solve_nonlinear, solve_linear and  *)
(* the backward pass of a linear solve run on these objects and hand the   *)
(* solve's id and suppress set to the cores.                               *)
(*                                                                         *)
(* A solve is a sequence of steps, one for each line that reads            *)
(* _SOLVE_TAPES or tests trj: the list has no lock, so tapes entered or    *)
(* left by another thread take effect between any two of these lines.      *)
(* The backend calls the function being solved, which runs on the thread   *)
(* of the solve and may itself enter and leave tapes and start solves; a   *)
(* solve it starts suspends the solve whose backend called it.             *)
(***************************************************************************)
EXTENDS Integers, Sequences, FiniteSets, TLC

\* ---------------------------------------------------------------- bounds
MaxDepth == 3
MaxRecords == 2
MaxSteps == 2
BatchSize == 2
MaxObjects == 5
MaxConstructed == 2
MaxNested == 1
MaxCalls == 1
MaxConcurrent == 2

\* the tapes the program constructs: SolveTape() and SolveTape(record_trajectories=True)
TapeArgs == << FALSE, TRUE >>
Tapes == 1..Len(TapeArgs)
Batch == 1..BatchSize
\* the uuid4 strings of the Solve objects the program constructs
Ids == {"uuid-a", "uuid-b"}

\* ------------------------------------------------------------ exceptions
NotConverged == "NotConverged"
Diverged == "Diverged"
AssertionError == "AssertionError"
AttributeError == "AttributeError"
ConvergenceException == "ConvergenceException"
\* a class the caller derives from ConvergenceException
Stalled == "Stalled"

\* the class a class is derived from: NotConverged, Diverged and the caller's class
\* from ConvergenceException, that one from RuntimeError
BaseOf(cls) ==
    IF cls \in {NotConverged, Diverged, Stalled} THEN ConvergenceException
    ELSE IF cls = ConvergenceException THEN "RuntimeError"
    ELSE IF cls \in {"RuntimeError", "KeyError", AssertionError, AttributeError} THEN "Exception"
    ELSE "object"

\* issubclass(cls, base): a class is a subclass of itself and of the classes it is
\* derived from
RECURSIVE issubclass(_, _)
issubclass(cls, base) ==
    \/ cls = base
    \/ cls # "object" /\ issubclass(BaseOf(cls), base)

None == << >>
Some(v) == << v >>

VARIABLES
    tapes,          \* the SolveTape objects: record_trajectories, solves, solve_ids
    _SOLVE_TAPES,   \* the process-wide list of active tapes
    scopes,         \* the tapes of the open scopes (`with tape:`), in entry order
    owners,         \* the thread each of these scopes belongs to, and the depth of the
                    \* code that opened it
    reentered,      \* whether a tape was entered while already active, since the list
                    \* was last empty
    pc,             \* "idle", "raising", or the line the running solve is at
    cur,            \* the solve in flight: its arguments, the values it has read, and
                    \* the solve it suspended, if it runs inside a backend call
    last,           \* how the most recent call ended (NoCall once the program moves on)
    objects,        \* the Solve objects constructed so far, in order of construction
    entry,          \* the most recent call of an entry point or of a Solve method
    returned,       \* the kwargs of the linear solves that returned x
    calls,          \* the number of calls of entry points the caller has made
    concurrent      \* the number of __enter__ / __exit__ calls made so far by the other
                    \* thread or by the function being solved

vars == << tapes, _SOLVE_TAPES, scopes, owners, reentered, pc, cur, last, objects, entry, returned, calls, concurrent >>

\* ----------------------------------------------------------- sequences
Range(s) == { s[i] : i \in 1..Len(s) }

\* Python's s[index], index < 0 counting from the end
PyIndex(s, index) == IF index < 0 THEN s[Len(s) + index + 1] ELSE s[index + 1]

\* list.remove(x): removes the first occurrence
ListRemove(s, x) ==
    LET i == CHOOSE k \in 1..Len(s) : s[k] = x /\ \A j \in 1..(k - 1) : s[j] # x
    IN  SubSeq(s, 1, i - 1) \o SubSeq(s, i + 1, Len(s))

Count(s, x) == Cardinality({ i \in 1..Len(s) : s[i] = x })

\* -------------------------------------------------------------- tensors
Tensor(v) == [available |-> TRUE, traj |-> FALSE, val |-> << v >>]

\* stack(values, batch('trajectory'))
Stack(values) == [available |-> TRUE, traj |-> TRUE, val |-> values]

\* reshaped_tensor of a native flag vector; a traced (deferred) native stays unavailable
FlagTensor(native) == [available |-> native.available, traj |-> FALSE, val |-> << native.val >>]

NoneTensor == [available |-> TRUE, traj |-> FALSE, val |-> << >>]

\* tensor.trajectory[index]: slicing a dimension the tensor does not have returns it
\* unchanged (convergence_check slices converged, which never has a trajectory dimension)
TrajectoryIndex(t, index) ==
    IF t.traj THEN [available |-> t.available, traj |-> FALSE, val |-> << PyIndex(t.val, index) >>]
    ELSE t

all_available(a, b) == a.available /\ b.available

\* tensor.any, tensor.all: reductions over every dimension
TensorAny(t) == \E i \in 1..Len(t.val) : \E b \in 1..Len(t.val[i]) : t.val[i][b]
TensorAll(t) == \A i \in 1..Len(t.val) : \A b \in 1..Len(t.val[i]) : t.val[i][b]

\* ------------------------------------------------------ SolveInfo (result)
AutoMessage(msg, converged, diverged) ==
    IF msg = "" /\ all_available(diverged, converged)
    THEN IF TensorAny(diverged) THEN "Solve diverged"
         ELSE IF ~TensorAll(TrajectoryIndex(converged, -1)) THEN "Solve did not converge"
         ELSE "Converged"
    ELSE msg

SolveInfo(solve, x, residual, iterations, function_evaluations, converged, diverged, method, msg, solve_time) ==
    [solve |-> solve, x |-> x, residual |-> residual, iterations |-> iterations,
     function_evaluations |-> function_evaluations, converged |-> converged,
     diverged |-> diverged, method |-> method,
     msg |-> AutoMessage(msg, converged, diverged), solve_time |-> solve_time]

\* SolveInfo.snapshot: the exception raised (None when it returns) and the SolveInfo
\* returned.  A residual that is None has no attribute `trajectory`.
snapshot(self, index) ==
    IF self.residual = NoneTensor
    THEN [raised |-> Some(AttributeError), value |-> None]
    ELSE [raised |-> None,
          value |-> Some(SolveInfo(self.solve, TrajectoryIndex(self.x, index),
                                   TrajectoryIndex(self.residual, index),
                                   TrajectoryIndex(self.iterations, index),
                                   TrajectoryIndex(self.function_evaluations, index),
                                   TrajectoryIndex(self.converged, index),
                                   TrajectoryIndex(self.diverged, index),
                                   self.method, self.msg, self.solve_time))]

\* The first branch of the check: [raised, warned]
DivergedBranch(self, only_warn) ==
    IF TensorAny(self.diverged) /\ Diverged \notin self.solve.suppress
    THEN IF only_warn THEN [raised |-> None, warned |-> 1]
         ELSE [raised |-> Some(Diverged), warned |-> 0]
    ELSE [raised |-> None, warned |-> 0]

\* a variant that ignores the suppress set
NotConvergedBranch_unsuppressed(self, only_warn) ==
    IF ~TensorAll(TrajectoryIndex(self.converged, -1))
    THEN IF only_warn THEN [raised |-> None, warned |-> 1]
         ELSE [raised |-> Some(NotConverged), warned |-> 0]
    ELSE [raised |-> None, warned |-> 0]

\* The second branch, reached when the first did not raise
NotConvergedBranch(self, only_warn) ==
    IF ~TensorAll(TrajectoryIndex(self.converged, -1)) /\ NotConverged \notin self.solve.suppress
    THEN IF only_warn THEN [raised |-> None, warned |-> 1]
         ELSE [raised |-> Some(NotConverged), warned |-> 0]
    ELSE [raised |-> None, warned |-> 0]

\* a variant that checks whatever flags it is given, available or not
convergence_check_unguarded(self, only_warn) ==
    LET d == DivergedBranch(self, only_warn)
        n == NotConvergedBranch(self, only_warn)
    IN  IF d.raised # None THEN d
        ELSE [raised |-> n.raised, warned |-> d.warned + n.warned]

\* SolveInfo.convergence_check: the exception raised (None when it returns) and the
\* number of ConvergenceWarnings issued
convergence_check(self, only_warn) ==
    IF ~all_available(self.diverged, self.converged)
    THEN [raised |-> None, warned |-> 0]
    ELSE LET d == DivergedBranch(self, only_warn)
             n == NotConvergedBranch(self, only_warn)
         IN  IF d.raised # None THEN d
             ELSE [raised |-> n.raised, warned |-> d.warned + n.warned]

\* ------------------------------------------------------------- SolveTape
SolveTape(record_trajectories) ==
    [record_trajectories |-> record_trajectories, solves |-> << >>, solve_ids |-> << >>]

SolveTape_enter(active, tape) == Append(active, tape)

\* a variant that forgets to remove the tape
SolveTape_exit_keeps(active, tape) == active

SolveTape_exit(active, tape) == ListRemove(active, tape)

\* a variant that never finds an earlier result
HasResultFor_never(self, solve) == FALSE

HasResultFor(self, solve) == \E i \in 1..Len(self.solves) : self.solves[i].solve.id = solve.id

\* a variant that takes the snapshot of the first step
Stored_first(self, trj, result) ==
    IF self.record_trajectories THEN [raised |-> None, value |-> Some(result)]
    ELSE IF trj THEN snapshot(result, 0)
    ELSE [raised |-> None, value |-> Some(result)]

\* what _add appends for a result, or the exception snapshot raises
Stored(self, trj, result) ==
    IF self.record_trajectories THEN [raised |-> None, value |-> Some(result)]
    ELSE IF trj THEN snapshot(result, -1)
    ELSE [raised |-> None, value |-> Some(result)]

\* SolveTape._add: the tape afterwards, whether the duplicate warning was issued,
\* and the exception raised: by the assertion, or by snapshot (nothing is appended
\* then)
SolveTape_add(self, solve, trj, result) ==
    IF self.record_trajectories /\ ~trj
    THEN [tape |-> self, warned |-> HasResultFor(self, solve), raised |-> Some(AssertionError)]
    ELSE LET stored == Stored(self, trj, result)
         IN  IF stored.raised # None
             THEN [tape |-> self, warned |-> HasResultFor(self, solve), raised |-> stored.raised]
             ELSE [tape |-> [self EXCEPT !.solves = Append(@, stored.value[1]),
                                         !.solve_ids = Append(@, solve.id)],
                   warned |-> HasResultFor(self, solve), raised |-> None]

\* SolveTape.__getitem__ with an int
SolveTape_getitem_int(self, item) ==
    IF item >= Len(self.solves) \/ item < 0 - Len(self.solves)
    THEN [raised |-> Some("IndexError"), value |-> None]
    ELSE [raised |-> None, value |-> Some(PyIndex(self.solves, item))]

Matching(self, item) == SelectSeq(self.solves, LAMBDA s : s.solve.id = item.id)

\* SolveTape.__getitem__ with a Solve
SolveTape_getitem(self, item) ==
    LET found == Matching(self, item)
    IN  IF Len(found) = 0 THEN [raised |-> Some("KeyError"), value |-> None]
        ELSE IF Len(found) # 1 THEN [raised |-> Some(AssertionError), value |-> None]
        ELSE [raised |-> None, value |-> Some(found[1])]

\* ------------------------------------------------------------ the backend
\* The SolveResult record a backend returns (phi.math.backend._backend.SolveResult)
SolveResult(x, residual, iterations, function_evaluations, converged, diverged, method, message) ==
    [x |-> x, residual |-> residual, iterations |-> iterations,
     function_evaluations |-> function_evaluations, converged |-> converged,
     diverged |-> diverged, method |-> method, message |-> message]

NativeFlags(val) == [available |-> TRUE, val |-> val]
TracedFlags == [available |-> FALSE, val |-> << >>]
AllFlags(b) == NativeFlags([i \in Batch |-> b])

\* The state a backend reports after k iterations: the iterate, its residual and the
\* counters are labelled by k, so that steps and fields can be told apart.
IterateX(k) == k
IterateResidual(k) == 10 + k
IterateEvaluations(k) == 2 * k

\* an intermediate step of a recorded trajectory: neither converged nor diverged yet
IntermediateStep(k, method) ==
    SolveResult(IterateX(k), Some(IterateResidual(k)), k, IterateEvaluations(k),
                AllFlags(FALSE), AllFlags(FALSE), method, "")

FinalStep(n, residual_given, converged, diverged, method, message) ==
    SolveResult(IterateX(n), IF residual_given THEN Some(IterateResidual(n)) ELSE None,
                n, IterateEvaluations(n), converged, diverged, method, message)

\* What backend.minimize / backend.linear_solve hand back: one SolveResult, or with
\* trj the list of the SolveResults of all n steps
BackendReturn(trj, n, final) ==
    IF trj THEN [k \in 1..n |-> IF k < n THEN IntermediateStep(k, final.method) ELSE final]
    ELSE final

\* backend.linear(native_lin_op, ret.x) - y_native
LinearResidual(x) == 20 + x

\* -------------------------------------------------------- the solve cores
\* `x and y` is x when x is falsy: with no tape active, trj is not a bool but the list
\* _SOLVE_TAPES itself
TrjIsList(active) == Len(active) = 0

\* The truth value of trj wherever it is tested (`if trj`, `if not trj`, `assert trj`
\* and `elif trj` in _add, and inside the backend), the active tapes being `active`
\* at that moment
TrjNow(flag, is_list, active) == IF is_list THEN Len(active) > 0 ELSE flag

\* `sub in s` for two strings: s holds sub at some position
Contains(sub, s) ==
    \E i \in 0..(Len(s) - Len(sub)) : SubSeq(s, i + 1, i + Len(sub)) = sub

\* a variant that takes 'TensorFlow' for the whole name
NameContainsTensorFlow_whole_name(name) == name = "TensorFlow"

\* 'TensorFlow' in backend.name
NameContainsTensorFlow(name) == Contains("TensorFlow", name)

\* the SolveInfo minimize builds from the backend's return value, and the x it returns
MinimizeResult(solve, trj, ret, t) ==
    IF ~trj
    THEN [x |-> Tensor(ret.x),
          result |-> SolveInfo(solve, Tensor(ret.x), Tensor(ret.residual[1]), Tensor(ret.iterations),
                               Tensor(ret.function_evaluations), FlagTensor(ret.converged),
                               FlagTensor(ret.diverged), ret.method, ret.message, t)]
    ELSE LET final == PyIndex(ret, -1)
         IN  [x |-> Tensor(final.x),
              result |-> SolveInfo(solve, Stack([k \in 1..Len(ret) |-> ret[k].x]),
                                   Stack([k \in 1..Len(ret) |-> ret[k].residual[1]]),
                                   Tensor(final.iterations),
                                   Stack([k \in 1..Len(ret) |-> ret[k].function_evaluations]),
                                   FlagTensor(final.converged), FlagTensor(final.diverged),
                                   final.method, final.message, t)]

\* The residual of a linear solve without trj: the one the backend reported, or else
\* the one computed with backend.linear when `elif _SOLVE_TAPES` found a tape active
\* (computed), or else None
Residual(ret, computed) ==
    IF ret.residual # None THEN Tensor(ret.residual[1])
    ELSE IF computed THEN Tensor(LinearResidual(ret.x))
    ELSE NoneTensor

\* the same for _linear_solve_forward
LinearResult(solve, trj, ret, t, computed) ==
    IF ~trj
    THEN LET residual == Residual(ret, computed)
         IN  [x |-> Tensor(ret.x),
              result |-> SolveInfo(solve, Tensor(ret.x), residual, Tensor(ret.iterations),
                                   Tensor(ret.function_evaluations), FlagTensor(ret.converged),
                                   FlagTensor(ret.diverged), ret.method, ret.message, t)]
    ELSE LET final == PyIndex(ret, -1)
         IN  [x |-> Tensor(final.x),
              result |-> SolveInfo(solve, Stack([k \in 1..Len(ret) |-> ret[k].x]),
                                   Stack([k \in 1..Len(ret) |-> ret[k].residual[1]]),
                                   Tensor(final.iterations),
                                   Stack([k \in 1..Len(ret) |-> ret[k].function_evaluations]),
                                   FlagTensor(final.converged), FlagTensor(final.diverged),
                                   final.method, final.message, t)]

\* a variant of the iterator that yields the first element only
ListIterNext_first_only(list, i) ==
    IF i >= 1 \/ i >= Len(list) THEN None ELSE Some(list[i + 1])

\* `for tape in _SOLVE_TAPES`, and the generator any() draws from: the list iterator
\* at position i yields the element the list holds there now, or ends (None) when the
\* list, as it is now, has none there
ListIterNext(list, i) ==
    IF i >= Len(list) THEN None ELSE Some(list[i + 1])

\* a variant that checks convergence before it records
LineAfter_check_first(line) ==
    IF line = "build" THEN "check"
    ELSE IF line = "check" THEN "record"
    ELSE "return"

\* The order of the last statements of a solve: the SolveInfo is built, recorded
\* into the active tapes, checked for convergence, and x is returned
LineAfter(line) ==
    IF line = "build" THEN "record"
    ELSE IF line = "record" THEN "check"
    ELSE "return"

\* a variant that only warns on every backward pass, whatever the backend
OnlyWarn_any_backend(fn, is_backprop, backend) ==
    fn = "solve_linear" /\ is_backprop

\* The argument of convergence_check: False in minimize,
\* `is_backprop and 'TensorFlow' in backend.name` in _linear_solve_forward
OnlyWarn(fn, is_backprop, backend) ==
    fn = "solve_linear" /\ is_backprop /\ NameContainsTensorFlow(backend)

\* ---------------------------------------------------------------- inputs
Solve(id, suppress) == [id |-> id, suppress |-> suppress]

Functions == {"minimize", "solve_linear"}
\* backend.name: of the backends that come with the library, and of a backend of the
\* caller's own whose name holds 'TensorFlow' within it
BackendNames == {"NumPy", "TensorFlow", "MyTensorFlowBackend"}
Methods == {"CG"}
Times == {1}

FlagNatives == { NativeFlags(v) : v \in [Batch -> BOOLEAN] } \cup {TracedFlags}

\* every return value of the backend after MaxSteps steps, for a solve that asked for trj
BackendReturns(fn, trj) ==
    { BackendReturn(trj, MaxSteps, FinalStep(MaxSteps, given, c, d, m, msg)) :
        given \in (IF fn = "solve_linear" /\ ~trj THEN BOOLEAN ELSE {TRUE}),
        c \in FlagNatives, d \in FlagNatives, m \in Methods, msg \in {"", "stopped"} }

\* the return values the tape scenarios draw from: converged or not after MaxSteps
\* steps, and a linear solve without trj may leave out the residual
StepReturns(fn, trj) ==
    { BackendReturn(trj, MaxSteps, FinalStep(MaxSteps, given, AllFlags(c), AllFlags(FALSE), m, "")) :
        given \in (IF fn = "solve_linear" /\ ~trj THEN BOOLEAN ELSE {TRUE}),
        c \in BOOLEAN, m \in Methods }

\* the return values of a backend that converges
ConvergedReturns(fn, trj) ==
    { BackendReturn(trj, MaxSteps, FinalStep(MaxSteps, given, AllFlags(TRUE), AllFlags(FALSE), m, "")) :
        given \in (IF fn = "solve_linear" /\ ~trj THEN BOOLEAN ELSE {TRUE}), m \in Methods }

\* suppress: the classes Solve() accepts are the subclasses of ConvergenceException,
\* that class itself included
Suppressible == {ConvergenceException, NotConverged, Diverged}
AllSolves == { Solve("uuid-a", suppress) : suppress \in SUBSET Suppressible }
PlainSolves == { Solve(id, {}) : id \in Ids }

\* ------------------------------------------------------------------ state
NoCall == [op |-> "none"]

\* the threads of the program: the one that runs the solves, and another one
Threads == {"main", "other"}

\* Where the thread that runs the solves runs code of the caller or of the function
\* being solved: between the calls ("idle"), and inside the backend calls of a running
\* solve, in which the backend calls that function (native_function, native_lin_f):
\* backend.minimize / backend.linear_solve before ("backend") and after ("ran") the
\* backend has tested trj, and backend.linear ("linear")
UserCode == {"idle", "backend", "ran", "linear"}

Init ==
    /\ tapes = [tape \in Tapes |-> SolveTape(TapeArgs[tape])]
    /\ _SOLVE_TAPES = << >>
    /\ scopes = << >>
    /\ owners = << >>
    /\ reentered = FALSE
    /\ pc = "idle"
    /\ cur = NoCall
    /\ last = NoCall
    /\ objects = << >>
    /\ entry = NoCall
    /\ returned = {}
    /\ calls = 0
    /\ concurrent = 0

\* how many solves are suspended below the solve c: a solve that the function being
\* solved starts suspends the solve whose backend called that function
RECURSIVE Nesting(_)
Nesting(c) == IF c.outer = None THEN 0 ELSE 1 + Nesting(c.outer[1])

\* The solve that c suspended, NoCall if the caller started c.  (The tapes that were
\* active together during c, which the solves keep track of, were so during the
\* suspended solve as well.)
Parent(c) ==
    IF c.outer = None THEN NoCall ELSE [c.outer[1] EXCEPT !.together = @ \cup c.together]

\* The depth of the code of the solving thread that runs outside the lines of the
\* solves: 0 for the caller, d + 1 for the function called by the backend of a solve
\* that has d solves suspended below it.  While an exception propagates, cur is the
\* solve whose backend called the function the exception is in.
Level == IF cur = NoCall THEN 0 ELSE Nesting(cur) + 1

\* the `with` block a thread opens now
Block(thread) == [thread |-> thread, level |-> IF thread = "main" THEN Level ELSE 0]

\* the open blocks of a thread, by their position in entry order
BlocksOf(thread) == { k \in 1..Len(owners) : owners[k].thread = thread }

DropAt(s, k) == SubSeq(s, 1, k - 1) \o SubSeq(s, k + 1, Len(s))

\* a call of __enter__ or __exit__ that runs beside a solve or inside one: made by the
\* other thread, or by the function being solved; MaxConcurrent bounds their number
Concurrent(thread) == thread = "other" \/ pc # "idle"

\* the solve in flight has seen the list of active tapes change, or has been
\* suspended by a solve of the function it solves
Disturb(c) == IF c = NoCall THEN c ELSE [c EXCEPT !.disturbed = TRUE]

\* whether the list holds a snapshot-mode tape and a trajectory-mode tape
BothModes(active) ==
    \E s, r \in Range(active) : ~TapeArgs[s] /\ TapeArgs[r]

\* the tapes of a list that holds a tape of each mode
Together(active) == IF BothModes(active) THEN Range(active) ELSE {}

\* `with tape:` is entered by a thread (SolveTape.__enter__): by the other thread at
\* any time, by the thread that runs the solves wherever it runs code of the caller
\* or of the function being solved
Enter(thread, tape) ==
    /\ thread = "main" => pc \in UserCode
    /\ Len(_SOLVE_TAPES) < MaxDepth
    /\ Concurrent(thread) => concurrent < MaxConcurrent
    /\ _SOLVE_TAPES' = SolveTape_enter(_SOLVE_TAPES, tape)
    /\ scopes' = Append(scopes, tape)
    /\ owners' = Append(owners, Block(thread))
    /\ reentered' = (reentered \/ tape \in Range(_SOLVE_TAPES))
    /\ concurrent' = IF Concurrent(thread) THEN concurrent + 1 ELSE concurrent
    /\ cur' = IF cur = NoCall THEN cur
              ELSE [cur EXCEPT !.disturbed = TRUE,
                               !.together = @ \cup Together(SolveTape_enter(_SOLVE_TAPES, tape))]
    /\ last' = NoCall
    /\ UNCHANGED << tapes, pc, objects, entry, returned, calls >>

\* A thread leaves one of its open blocks normally (SolveTape.__exit__ of the tape of
\* that block, called at the end of a `with` block or directly): the block that ends
\* need not be the one the thread opened last (blocks of generators, direct calls of
\* __enter__ and __exit__, a block the function being solved left open).  The first
\* occurrence of the tape of that block is removed from the list.
Exit(thread, block) ==
    /\ block \in BlocksOf(thread)
    /\ thread = "main" => pc \in UserCode
    /\ Concurrent(thread) => concurrent < MaxConcurrent
    /\ _SOLVE_TAPES' = SolveTape_exit(_SOLVE_TAPES, scopes[block])
    /\ scopes' = DropAt(scopes, block)
    /\ owners' = DropAt(owners, block)
    /\ reentered' = (reentered /\ SolveTape_exit(_SOLVE_TAPES, scopes[block]) # << >>)
    /\ concurrent' = IF Concurrent(thread) THEN concurrent + 1 ELSE concurrent
    /\ cur' = Disturb(cur)
    /\ last' = NoCall
    /\ UNCHANGED << tapes, pc, objects, entry, returned, calls >>

\* An exception leaves an open block of the thread it propagates in
\* (SolveTape.__exit__ of the tape of that block with exc_type set; it returns None, so
\* the exception keeps propagating): a block of the caller or of the function being
\* solved, the innermost one in lexically nested `with` blocks, another one when the
\* blocks belong to generators or were opened by direct calls
Unwind(block) ==
    /\ pc = "raising"
    /\ block \in BlocksOf("main")
    /\ _SOLVE_TAPES' = SolveTape_exit(_SOLVE_TAPES, scopes[block])
    /\ scopes' = DropAt(scopes, block)
    /\ owners' = DropAt(owners, block)
    /\ reentered' = (reentered /\ SolveTape_exit(_SOLVE_TAPES, scopes[block]) # << >>)
    /\ cur' = Disturb(cur)
    /\ UNCHANGED << tapes, pc, last, objects, entry, returned, calls, concurrent >>

\* The exception is caught: by the caller, or by the function being solved when a
\* solve it started raised; the backend call that called that function then goes on
Catch ==
    /\ pc = "raising"
    /\ pc' = IF cur = NoCall THEN "idle" ELSE cur.at
    /\ last' = NoCall
    /\ UNCHANGED << tapes, _SOLVE_TAPES, scopes, owners, reentered, cur, objects, entry, returned, calls, concurrent >>

\* The function being solved does not catch the exception of the solve it started:
\* the exception leaves the backend call and the solve that made it (neither minimize
\* nor _linear_solve_forward catches anything around its backend call)
Propagate ==
    /\ pc = "raising"
    /\ cur # NoCall
    /\ cur' = Parent(cur)
    /\ UNCHANGED << tapes, _SOLVE_TAPES, scopes, owners, reentered, pc, last, objects, entry, returned, calls, concurrent >>

\* ------------------------------------------------- a solve, line by line
\* _SOLVE_TAPES is a module-level list without a lock, and trj is that list itself
\* when no tape was active at the call.  Every line of a solve that reads the list or
\* tests trj sees the tapes active at that moment, so a solve is taken through those
\* lines one step at a time; tapes entered or left by another thread, and tapes
\* entered or left and solves started by the function being solved, come in between.

\* where a solve goes once it has its trj: a linear solve to `if trj: assert
\* all_available(...)`, minimize to its backend call
AfterTrj(fn) == IF fn = "solve_linear" THEN "available" ELSE "backend"

\* what `last` says about a solve that ended: the defaults, and the fields given
Ended(c, active, trj, ret, raised, fields) ==
    LET base == [op |-> "solve", fn |-> c.fn, solve |-> c.solve, trj |-> trj,
                 backend |-> c.backend, is_backprop |-> c.is_backprop,
                 active_at_begin |-> c.active, active |-> active, before |-> c.before,
                 ret |-> ret, result |-> None, only_warn |-> FALSE, raised |-> raised,
                 x |-> None, convergence_warnings |-> 0,
                 duplicate_warnings |-> c.duplicate_warnings, failed_assertion |-> "",
                 asked |-> c.asked, disturbed |-> c.disturbed, together |-> c.together]
    IN  [k \in DOMAIN base |-> IF k \in DOMAIN fields THEN fields[k] ELSE base[k]]

\* The kwargs of a linear solve, which the autodiff framework keeps for
\* implicit_gradient_solve when the solve has returned x
Forward(call) ==
    [solve |-> call.solve, kind |-> call.kind, matrix |-> call.matrix,
     backend |-> call.backend, order |-> call.order]

\* `trj = _SOLVE_TAPES and ...`: the left operand is evaluated; an empty list is the
\* value of the whole expression.  The solve is called by the caller, or by the
\* function being solved while a backend call of a running solve calls it, which
\* suspends that solve at the line it is at.  kwargs is None for a core called
\* directly.  What becomes of objects, entry and calls is up to the entry point.
ReadTapes(fn, solve, backend, is_backprop, inputs_available, kwargs) ==
    /\ pc \in UserCode
    /\ pc # "idle" => Nesting(cur) < MaxNested
    /\ cur' = [op |-> "solve", fn |-> fn, solve |-> solve, backend |-> backend,
               is_backprop |-> is_backprop, inputs_available |-> inputs_available,
               kwargs |-> kwargs,
               trj |-> FALSE, trj_is_list |-> TrjIsList(_SOLVE_TAPES),
               active |-> _SOLVE_TAPES, before |-> tapes, asked |-> FALSE, ret |-> None,
               t |-> 0, built |-> None, i |-> 0, tape |-> 0, duplicate_warnings |-> 0,
               only_warn |-> FALSE, convergence_warnings |-> 0,
               disturbed |-> FALSE, together |-> Together(_SOLVE_TAPES), at |-> "",
               outer |-> IF pc = "idle" THEN None
                         ELSE Some([cur EXCEPT !.at = pc, !.disturbed = TRUE])]
    /\ pc' = IF TrjIsList(_SOLVE_TAPES) THEN AfterTrj(fn) ELSE "any"
    /\ last' = NoCall
    /\ UNCHANGED << tapes, _SOLVE_TAPES, scopes, owners, reentered, returned, concurrent >>

\* `... and any(t.record_trajectories for t in _SOLVE_TAPES)`: any() draws the next
\* tape from the list as it is now; it ends with True at a tape that records
\* trajectories and with False when the iterator ends
ReadAny ==
    /\ pc = "any"
    /\ LET next == ListIterNext(_SOLVE_TAPES, cur.i)
       IN  IF next = None
           THEN /\ cur' = [cur EXCEPT !.trj = FALSE, !.i = 0]
                /\ pc' = AfterTrj(cur.fn)
           ELSE IF tapes[next[1]].record_trajectories
           THEN /\ cur' = [cur EXCEPT !.trj = TRUE, !.i = 0]
                /\ pc' = AfterTrj(cur.fn)
           ELSE /\ cur' = [cur EXCEPT !.i = @ + 1]
                /\ pc' = "any"
    /\ UNCHANGED << tapes, _SOLVE_TAPES, scopes, owners, reentered, last, objects, entry, returned, calls, concurrent >>

\* _linear_solve_forward: `if trj: assert all_available(y_tensor, x0_tensor)`
AssertAvailable ==
    /\ pc = "available"
    /\ IF TrjNow(cur.trj, cur.trj_is_list, _SOLVE_TAPES) /\ ~cur.inputs_available
       THEN /\ pc' = "raising"
            /\ cur' = Parent(cur)
            /\ last' = [op |-> "precondition", fn |-> cur.fn, solve |-> cur.solve,
                        raised |-> Some(AssertionError)]
       ELSE /\ pc' = "backend"
            /\ UNCHANGED << cur, last >>
    /\ UNCHANGED << tapes, _SOLVE_TAPES, scopes, owners, reentered, objects, entry, returned, calls, concurrent >>

\* the backend tests the trj it was handed, at some moment of its call
BackendTests ==
    /\ pc = "backend"
    /\ cur' = [cur EXCEPT !.asked = TrjNow(cur.trj, cur.trj_is_list, _SOLVE_TAPES)]
    /\ pc' = "ran"
    /\ last' = NoCall
    /\ UNCHANGED << tapes, _SOLVE_TAPES, scopes, owners, reentered, objects, entry, returned, calls, concurrent >>

\* The backend returns ret after t seconds; `if not trj` chooses the branch, which
\* asserts that ret is one SolveResult, or a list of them, and builds the SolveInfo.
\* A linear solve left without a residual goes on to `elif _SOLVE_TAPES`.
TestTrj(ret, t) ==
    /\ pc = "ran"
    /\ LET trj == TrjNow(cur.trj, cur.trj_is_list, _SOLVE_TAPES)
       IN  IF trj # cur.asked
           THEN /\ pc' = "raising"
                /\ cur' = Parent(cur)
                /\ last' = Ended(cur, _SOLVE_TAPES, trj, ret, Some(AssertionError),
                                 [failed_assertion |-> "isinstance(ret)"])
           ELSE IF cur.fn = "solve_linear" /\ ~trj /\ ret.residual = None
           THEN /\ pc' = "residual"
                /\ cur' = [cur EXCEPT !.ret = Some(ret), !.t = t]
                /\ last' = NoCall
           ELSE /\ pc' = LineAfter("build")
                /\ cur' = [cur EXCEPT !.ret = Some(ret), !.t = t,
                                      !.built = Some(IF cur.fn = "minimize"
                                                     THEN MinimizeResult(cur.solve, trj, ret, t)
                                                     ELSE LinearResult(cur.solve, trj, ret, t, FALSE))]
                /\ last' = NoCall
    /\ UNCHANGED << tapes, _SOLVE_TAPES, scopes, owners, reentered, objects, entry, returned, calls, concurrent >>

\* _linear_solve_forward: `elif _SOLVE_TAPES:` goes on to the call of backend.linear
\* when a tape is active now; `else` leaves the residual None and builds the SolveInfo
ReadTapesForResidual ==
    /\ pc = "residual"
    /\ IF Len(_SOLVE_TAPES) > 0
       THEN /\ pc' = "linear"
            /\ cur' = cur
       ELSE /\ pc' = LineAfter("build")
            /\ cur' = [cur EXCEPT !.built = Some(LinearResult(cur.solve, FALSE, cur.ret[1],
                                                              cur.t, FALSE))]
    /\ UNCHANGED << tapes, _SOLVE_TAPES, scopes, owners, reentered, last, objects, entry, returned, calls, concurrent >>

\* `residual = backend.linear(native_lin_op, ret.x) - y_native`: the call, during which
\* the backend calls the function being solved, returns, and the SolveInfo is built
\* with the residual computed
ComputeResidual ==
    /\ pc = "linear"
    /\ pc' = LineAfter("build")
    /\ cur' = [cur EXCEPT !.built = Some(LinearResult(cur.solve, FALSE, cur.ret[1],
                                                      cur.t, TRUE))]
    /\ last' = NoCall
    /\ UNCHANGED << tapes, _SOLVE_TAPES, scopes, owners, reentered, objects, entry, returned, calls, concurrent >>

\* `for tape in _SOLVE_TAPES`: the list iterator takes the element at its position,
\* or ends the loop
NextTape ==
    /\ pc = "record"
    /\ LET next == ListIterNext(_SOLVE_TAPES, cur.i)
       IN  IF next = None
           THEN /\ pc' = LineAfter("record")
                /\ cur' = [cur EXCEPT !.i = 0]
           ELSE /\ pc' = "add"
                /\ cur' = [cur EXCEPT !.tape = next[1], !.i = @ + 1]
    /\ UNCHANGED << tapes, _SOLVE_TAPES, scopes, owners, reentered, last, objects, entry, returned, calls, concurrent >>

\* `tape._add(solve, trj, result)`, which tests trj as it is now
AddToTape ==
    /\ pc = "add"
    /\ LET trj == TrjNow(cur.trj, cur.trj_is_list, _SOLVE_TAPES)
           r == SolveTape_add(tapes[cur.tape], cur.solve, trj, cur.built[1].result)
           w == cur.duplicate_warnings + (IF r.warned THEN 1 ELSE 0)
       IN  IF r.raised # None
           THEN /\ pc' = "raising"
                /\ cur' = Parent(cur)
                /\ last' = Ended(cur, _SOLVE_TAPES, trj, cur.ret[1], r.raised,
                                 [result |-> cur.built[1].result,
                                  duplicate_warnings |-> w,
                                  failed_assertion |->
                                      IF r.raised = Some(AssertionError)
                                      THEN "Solve did not record a trajectory" ELSE ""])
                /\ UNCHANGED tapes
           ELSE /\ pc' = "record"
                /\ cur' = [cur EXCEPT !.duplicate_warnings = w]
                /\ tapes' = [tapes EXCEPT ![cur.tape] = r.tape]
                /\ UNCHANGED last
    /\ UNCHANGED << _SOLVE_TAPES, scopes, owners, reentered, objects, entry, returned, calls, concurrent >>

\* `result.convergence_check(...)`
CheckConvergence ==
    /\ pc = "check"
    /\ LET only_warn == OnlyWarn(cur.fn, cur.is_backprop, cur.backend)
           chk == convergence_check(cur.built[1].result, only_warn)
           trj == TrjNow(cur.trj, cur.trj_is_list, _SOLVE_TAPES)
       IN  IF chk.raised # None
           THEN /\ pc' = "raising"
                /\ cur' = Parent(cur)
                /\ last' = Ended(cur, _SOLVE_TAPES, trj, cur.ret[1], chk.raised,
                                 [result |-> cur.built[1].result, only_warn |-> only_warn,
                                  convergence_warnings |-> chk.warned])
           ELSE /\ pc' = LineAfter("check")
                /\ cur' = [cur EXCEPT !.only_warn = only_warn,
                                      !.convergence_warnings = chk.warned]
                /\ UNCHANGED last
    /\ UNCHANGED << tapes, _SOLVE_TAPES, scopes, owners, reentered, objects, entry, returned, calls, concurrent >>

\* `return x`: to the caller, or into the function being solved, whose backend call
\* goes on.  The autodiff framework keeps the kwargs of a linear solve that returned.
Return ==
    /\ pc = "return"
    /\ last' = Ended(cur, _SOLVE_TAPES, TrjNow(cur.trj, cur.trj_is_list, _SOLVE_TAPES),
                     cur.ret[1], None,
                     [result |-> cur.built[1].result, only_warn |-> cur.only_warn,
                      x |-> Some(cur.built[1].x),
                      convergence_warnings |-> cur.convergence_warnings])
    /\ returned' = IF cur.kwargs = None THEN returned ELSE returned \cup {cur.kwargs[1]}
    /\ pc' = IF cur.outer = None THEN "idle" ELSE cur.outer[1].at
    /\ cur' = Parent(cur)
    /\ UNCHANGED << tapes, _SOLVE_TAPES, scopes, owners, reentered, objects, entry, calls, concurrent >>

\* every active tape has room for the records of one more solve
RoomToRecord ==
    \A tape \in Range(_SOLVE_TAPES) :
        Len(tapes[tape].solves) + Count(_SOLVE_TAPES, tape) <= MaxRecords

\* tape[index]
GetItemInt(tape, index) ==
    /\ pc \in UserCode
    /\ last' = [op |-> "getitem_int", tape |-> tape, index |-> index,
                out |-> SolveTape_getitem_int(tapes[tape], index)]
    /\ UNCHANGED << tapes, _SOLVE_TAPES, scopes, owners, reentered, pc, cur, objects, entry, returned, calls, concurrent >>

\* tape[solve]
GetItem(tape, solve) ==
    /\ pc \in UserCode
    /\ last' = [op |-> "getitem", tape |-> tape, item |-> solve,
                out |-> SolveTape_getitem(tapes[tape], solve)]
    /\ UNCHANGED << tapes, _SOLVE_TAPES, scopes, owners, reentered, pc, cur, objects, entry, returned, calls, concurrent >>

Next ==
    \/ \E tape \in Tapes : pc = "idle" /\ Enter("main", tape)
    \/ \E block \in 1..Len(scopes) : pc = "idle" /\ Exit("main", block)
    \/ \E block \in 1..Len(scopes) : Unwind(block)
    \/ Catch
    \/ \E fn \in Functions, solve \in PlainSolves, available \in BOOLEAN :
          /\ pc = "idle"
          /\ RoomToRecord
          /\ fn = "minimize" => available
          /\ ReadTapes(fn, solve, "NumPy", FALSE, available, None)
          /\ UNCHANGED << objects, entry, calls >>
    \/ ReadAny
    \/ AssertAvailable
    \/ BackendTests
    \/ /\ pc = "ran"
       /\ \E ret \in StepReturns(cur.fn, cur.asked), t \in Times : TestTrj(ret, t)
    \/ ReadTapesForResidual
    \/ ComputeResidual
    \/ NextTape
    \/ AddToTape
    \/ CheckConvergence
    \/ Return
    \/ \E tape \in Tapes, index \in {0, -1} :
          pc = "idle" /\ _SOLVE_TAPES = << >> /\ GetItemInt(tape, index)
    \/ \E tape \in Tapes, solve \in PlainSolves :
          pc = "idle" /\ _SOLVE_TAPES = << >> /\ GetItem(tape, solve)

\* One thread, which enters and leaves tapes, starts solves and looks results up
\* between its calls only: the function being solved does none of these.  The solves
\* converge or fail to converge; results are looked up once the scopes are closed.
Spec == Init /\ [][Next]_vars

NothingRecorded == \A tape \in Tapes : tapes[tape].solves = << >>

NextOneSolve ==
    \/ \E tape \in Tapes : pc = "idle" /\ Enter("main", tape)
    \/ \E block \in 1..Len(scopes) : pc = "idle" /\ Exit("main", block)
    \/ \E block \in 1..Len(scopes) : Unwind(block)
    \/ Catch
    \/ \E fn \in Functions, solve \in AllSolves, backend \in BackendNames,
          is_backprop \in BOOLEAN, available \in BOOLEAN :
          /\ pc = "idle"
          /\ NothingRecorded
          /\ fn = "minimize" => (~is_backprop /\ available)
          /\ ReadTapes(fn, solve, backend, is_backprop, available, None)
          /\ UNCHANGED << objects, entry, calls >>
    \/ ReadAny
    \/ AssertAvailable
    \/ BackendTests
    \/ /\ pc = "ran"
       /\ \E ret \in BackendReturns(cur.fn, cur.asked), t \in Times : TestTrj(ret, t)
    \/ ReadTapesForResidual
    \/ ComputeResidual
    \/ NextTape
    \/ AddToTape
    \/ CheckConvergence
    \/ Return

\* Every kind of solve with every return value of the backend, under any nesting of
\* tapes, until a solve has been recorded: one thread, which enters and leaves tapes
\* and starts solves between its calls only
SpecOneSolve == Init /\ [][NextOneSolve]_vars

\* ========================================================= Solve objects
\* A value with its type.  "int" and "str" are Python's int and str: plain Python
\* objects.  "float" and "int32" are the data types of a Tensor.  Tolerances are
\* counted in units of the smallest tolerance in use.
Scalar(dtype, val) == [dtype |-> dtype, val |-> val]

\* isinstance(value, Tensor)
IsTensor(value) == value.dtype \in {"float", "int32"}

\* math.to_float(wrap(value)) and math.to_int32(wrap(value))
to_float(value) == [dtype |-> "float", val |-> value.val]
to_int32(value) == [dtype |-> "int32", val |-> value.val]

\* A tensor of x0 or y: its shape and what it holds
TensorOf(shape, data) == [shape |-> shape, data |-> data]

\* disassemble_tree(obj), the tensors only: none for None, the elements of a tuple.
\* x0 and y are kept as the sequence of their tensors.
disassemble_tree(obj) == obj

\* zeros_like(obj)
zeros_like(obj) == [i \in 1..Len(obj) |-> TensorOf(obj[i].shape, "zeros")]

\* the largest id handed out so far
RECURSIVE MaxId(_, _)
MaxId(heap, n) ==
    IF n = 0 THEN 0
    ELSE LET m == MaxId(heap, n - 1) IN IF heap[n].id > m THEN heap[n].id ELSE m

\* str(uuid.uuid4()): the n-th id drawn is n, no two draws are equal
uuid4(heap) == MaxId(heap, Len(heap)) + 1

\* Solve.__init__, with the id it would draw: the exception raised (None when it
\* returns) and the Solve constructed.  It asserts that method is a str and that
\* every element of suppress is a subclass of ConvergenceException (the class
\* itself, NotConverged, Diverged, or a class derived from them); no id is drawn when
\* an assertion fails.  gradient_solve is None or a reference.
Solve_init(method, relative_tolerance, absolute_tolerance, max_iterations, x0, suppress, preprocess_y, preprocess_y_args, gradient_solve, id) ==
    IF method.dtype # "str" \/ ~(\A err \in suppress : issubclass(err, ConvergenceException))
    THEN [raised |-> Some(AssertionError), value |-> None]
    ELSE [raised |-> None,
          value |-> Some([method |-> method,
                          relative_tolerance |-> to_float(relative_tolerance),
                          absolute_tolerance |-> to_float(absolute_tolerance),
                          max_iterations |-> to_int32(max_iterations),
                          x0 |-> x0,
                          preprocess_y |-> preprocess_y,
                          preprocess_y_args |-> preprocess_y_args,
                          suppress |-> suppress,
                          _gradient_solve |-> gradient_solve,
                          id |-> id])]

\* a variant that hands the initial guess on to the gradient solve
gradient_solve_keeps_x0(heap, self) ==
    LET o == heap[self]
        new == Len(heap) + 1
        made == Solve_init(o.method, o.relative_tolerance, o.absolute_tolerance,
                           o.max_iterations, o.x0, o.suppress, o.preprocess_y,
                           o.preprocess_y_args, None, uuid4(heap))
    IN  IF o._gradient_solve = None
        THEN IF made.raised # None
             THEN [objects |-> heap, value |-> None, raised |-> made.raised]
             ELSE [objects |-> Append([heap EXCEPT ![self]._gradient_solve = Some(new)],
                                      made.value[1]),
                   value |-> Some(new), raised |-> None]
        ELSE [objects |-> heap, value |-> o._gradient_solve, raised |-> None]

\* The property Solve.gradient_solve of the object self: the heap afterwards, the
\* reference returned, and the exception raised when Solve() fails (the attribute
\* stays unset then)
gradient_solve(heap, self) ==
    LET o == heap[self]
        new == Len(heap) + 1
        made == Solve_init(o.method, o.relative_tolerance, o.absolute_tolerance,
                           o.max_iterations, None, o.suppress, o.preprocess_y,
                           o.preprocess_y_args, None, uuid4(heap))
    IN  IF o._gradient_solve = None
        THEN IF made.raised # None
             THEN [objects |-> heap, value |-> None, raised |-> made.raised]
             ELSE [objects |-> Append([heap EXCEPT ![self]._gradient_solve = Some(new)],
                                      made.value[1]),
                   value |-> Some(new), raised |-> None]
        ELSE [objects |-> heap, value |-> o._gradient_solve, raised |-> None]

\* copy_with(obj, **updates): a shallow copy of the object with the given attributes
\* set; the copy keeps the id and the _gradient_solve of the original
copy_with(heap, self, updates) ==
    [objects |-> Append(heap, [attr \in DOMAIN heap[self] |->
                                  IF attr \in DOMAIN updates THEN updates[attr] ELSE heap[self][attr]]),
     value |-> Len(heap) + 1]

\* what the cores use of a Solve object
CoreSolve(o) == Solve(o.id, o.suppress)

\* ---------------------------------------------------- constructor inputs
\* method: a str; anything else fails the first assertion of Solve()
MethodArgs == { Scalar("str", m) : m \in Methods }
NoMethod == Scalar("int", 5)
\* suppress: sets of subclasses of ConvergenceException, the class itself and a class
\* of the caller's included; any other class fails the second assertion
SuppressArgs == SUBSET {ConvergenceException, NotConverged, Diverged, Stalled}
NoSuppress == { {"KeyError"}, {NotConverged, "RuntimeError"} }
\* relative and absolute tolerance handed to Solve(): the Python int 0, float tensors
Tolerances == { << Scalar("int", 0), Scalar("float", 1) >>, << Scalar("float", 1), Scalar("float", 2) >> }
Iterations == { Scalar("int", 1000) }
Guess == TensorOf("x", "guess")
\* x0: None, one tensor, a tuple of two tensors
X0s == { None, << Guess >>, << Guess, TensorOf("x2", "guess") >> }
\* preprocess_y: None or a function
Hooks == { None, Some("hook") }

\* Solve(...)
Construct(method, tol, max_iterations, x0, suppress, preprocess_y, supplied) ==
    /\ pc \in UserCode
    /\ Len(objects) < MaxConstructed
    /\ LET made == Solve_init(method, tol[1], tol[2], max_iterations, x0, suppress,
                              preprocess_y, << >>, supplied, uuid4(objects))
       IN  IF made.raised # None
           THEN /\ objects' = objects
                /\ entry' = [op |-> "Solve", raised |-> made.raised, out |-> None]
           ELSE /\ objects' = Append(objects, made.value[1])
                /\ entry' = [op |-> "Solve", raised |-> None, out |-> Some(Len(objects) + 1)]
    /\ UNCHANGED << tapes, _SOLVE_TAPES, scopes, owners, reentered, pc, cur, last, returned, calls, concurrent >>

\* solve.gradient_solve is read
ReadGradientSolve(self) ==
    /\ pc \in UserCode
    /\ Len(objects) < MaxObjects
    /\ LET r == gradient_solve(objects, self)
       IN  /\ objects' = r.objects
           /\ entry' = [op |-> "gradient_solve", self |-> self, before |-> objects,
                        raised |-> r.raised, out |-> r.value]
    /\ UNCHANGED << tapes, _SOLVE_TAPES, scopes, owners, reentered, pc, cur, last, returned, calls, concurrent >>

NextSolveObjects ==
    \/ \E method \in MethodArgs, tol \in Tolerances,
          max_iterations \in Iterations, x0 \in { None, << Guess >> },
          suppress \in SuppressArgs \cup NoSuppress, preprocess_y \in Hooks,
          supplied \in {None} \cup { Some(g) : g \in 1..Len(objects) } :
          Construct(method, tol, max_iterations, x0, suppress, preprocess_y, supplied)
    \/ \E tol \in Tolerances, max_iterations \in Iterations, suppress \in { {}, {Diverged} } :
          Construct(NoMethod, tol, max_iterations, None, suppress, None, None)
    \/ \E self \in 1..Len(objects) : ReadGradientSolve(self)

\* Solve objects are constructed, with and without a gradient solve of their own, and
\* their gradient_solve is read, also that of the gradient solves
SpecSolveObjects == Init /\ [][NextSolveObjects]_vars

\* =========================================================== entry points
\* a variant of the head of minimize() that accepts any relative tolerance
MinimizePrecondition_any_tolerance(solve) ==
    IF solve.preprocess_y # None THEN Some(AssertionError) ELSE None

\* The two assertions at the head of minimize(), `(solve.relative_tolerance == 0).all`
\* and `solve.preprocess_y is None`: the exception raised, None when both pass.
\* Comparing a Tensor gives a Tensor, which has `.all`; comparing a plain Python
\* number gives a bool, which has not.
MinimizePrecondition(solve) ==
    IF ~IsTensor(solve.relative_tolerance) THEN Some(AttributeError)
    ELSE IF solve.relative_tolerance.val # 0 THEN Some(AssertionError)
    ELSE IF solve.preprocess_y # None THEN Some(AssertionError)
    ELSE None

\* The assertion of solve_linear(): len(x0_tensors) == len(y_tensors) == 1
LinearPrecondition(x0_tensors, y_tensors) ==
    Len(x0_tensors) = Len(y_tensors) /\ Len(y_tensors) = 1

\* The target y of solve_nonlinear: l2_loss(y), and how often the hook was applied
Target(norm2) == [norm2 |-> norm2, applied |-> 0]

\* solve.preprocess_y(y): the caller's hook, which here raises l2_loss(y) by one unit
preprocess_y(y) == [norm2 |-> y.norm2 + 1, applied |-> y.applied + 1]

\* l2_loss(y)
l2_loss(y) == y.norm2

\* The attributes solve_nonlinear sets on min_solve: the tensor rel_tol_to_abs as
\* absolute tolerance, the Python int 0 as relative tolerance, no hook
MinSolveAttrs(solve, y) ==
    [absolute_tolerance |-> Scalar("float", solve.relative_tolerance.val * l2_loss(y)),
     relative_tolerance |-> Scalar("int", 0),
     preprocess_y |-> None]

\* y - bias
MinusBias(y) == [i \in 1..Len(y) |-> TensorOf(y[i].shape, "y - bias")]

\* cached(solve) of the matrix-free branch of solve_linear: the Solve whose tensors are
\* cached.  It is the object it was given, or a copy of it, which like every copy
\* keeps the attributes, the id and the _gradient_solve of the original.
cached(heap, self, copies) ==
    IF copies THEN copy_with(heap, self, << >>)
    ELSE [objects |-> heap, value |-> self]

\* a variant that always starts the gradient solve from zeros
GradientX0_zeros(grad_solve, solve) == zeros_like(solve.x0)

\* x0 of implicit_gradient_solve
GradientX0(grad_solve, solve) ==
    IF grad_solve.x0 # None THEN grad_solve.x0 ELSE zeros_like(solve.x0)

\* A precondition of an entry point raises before the core is reached: in the caller,
\* or in the function being solved that called the entry point, whose solve then
\* waits at the line of its backend call
RaiseAtEntry(fn, solve, call, exception) ==
    /\ pc \in UserCode
    /\ pc' = "raising"
    /\ cur' = IF cur = NoCall THEN cur ELSE [cur EXCEPT !.at = pc, !.disturbed = TRUE]
    /\ last' = [op |-> "precondition", fn |-> fn, solve |-> CoreSolve(solve),
                raised |-> Some(exception), before |-> tapes]
    /\ entry' = [call EXCEPT !.raised = Some(exception)]
    /\ UNCHANGED << tapes, _SOLVE_TAPES, scopes, owners, reentered, returned, concurrent >>

\* minimize(f, solve) up to `trj = _SOLVE_TAPES and ...`, for the Solve object self of
\* heap; call is what entry records about the entry point that was called
MinimizeBegin(heap, self, backend, call) ==
    IF MinimizePrecondition(heap[self]) # None
    THEN RaiseAtEntry("minimize", heap[self], call, MinimizePrecondition(heap[self])[1])
    ELSE /\ ReadTapes("minimize", CoreSolve(heap[self]), backend, FALSE, TRUE, None)
         /\ entry' = [call EXCEPT !.atol = Some(heap[self].absolute_tolerance)]

\* _matrix_solve_forward / _function_solve_forward, wrapped by attach_gradient_solve:
\* _linear_solve_forward with the backend of solve_linear and the given is_backprop, up
\* to `trj = _SOLVE_TAPES and ...`; call holds the arguments of the wrapped function
SolveForward(heap, solve, backend, is_backprop, available, call) ==
    ReadTapes("solve_linear", CoreSolve(heap[solve]), backend, is_backprop, available,
              Some(Forward(call)))

\* minimize(f, solve)
CallMinimize(self, backend) ==
    /\ calls < MaxCalls
    /\ calls' = calls + 1
    /\ objects[self].x0 # None
    /\ objects' = objects
    /\ MinimizeBegin(objects, self, backend,
                     [op |-> "minimize", solve |-> self, tapes |-> tapes,
                      raised |-> None, atol |-> None])

\* solve_nonlinear(f, y, solve)
CallSolveNonlinear(y, self, backend) ==
    /\ calls < MaxCalls
    /\ calls' = calls + 1
    /\ objects[self].x0 # None
    /\ Len(objects) < MaxObjects
    /\ LET solve == objects[self]
           y_ == IF solve.preprocess_y # None THEN preprocess_y(y) ELSE y
           min_solve == copy_with(objects, self, MinSolveAttrs(solve, y_))
       IN  /\ objects' = min_solve.objects
           /\ MinimizeBegin(min_solve.objects, min_solve.value, backend,
                            [op |-> "solve_nonlinear", solve |-> self, caller |-> solve,
                             min_solve |-> min_solve.value, y |-> y_,
                             raised |-> None, atol |-> None])

\* solve_linear(f, y, solve): a matrix solve when f is a LinearFunction and the
\* backend prefers explicit matrices, a matrix-free solve otherwise, which runs on
\* cached(solve); the assertion comes before either
CallSolveLinear(y, self, kind, backend, available, copies) ==
    /\ calls < MaxCalls
    /\ calls' = calls + 1
    /\ copies => (kind = "function" /\ Len(objects) < MaxObjects)
    /\ LET solve == objects[self]
           used == IF kind = "function" THEN cached(objects, self, copies)
                   ELSE [objects |-> objects, value |-> self]
           call == [op |-> "solve_linear", kind |-> kind,
                    matrix |-> IF kind = "matrix" THEN Some("matrix") ELSE None,
                    y |-> IF kind = "matrix" THEN MinusBias(y) ELSE y,
                    solve |-> used.value, given |-> self, is_backprop |-> FALSE, order |-> 0,
                    backend |-> backend, tapes |-> tapes, raised |-> None]
       IN  IF ~LinearPrecondition(disassemble_tree(solve.x0), disassemble_tree(y))
           THEN /\ objects' = objects
                /\ RaiseAtEntry("solve_linear", solve, [call EXCEPT !.solve = self], AssertionError)
           ELSE /\ objects' = used.objects
                /\ SolveForward(used.objects, used.value, backend, FALSE, available, call)
                /\ entry' = call

\* implicit_gradient_solve(kwargs, x, dx): the backward pass through a linear solve
\* that has returned x, which the autodiff framework calls with the kwargs of that
\* solve whenever the gradient is asked for.  solve_with_grad is taken to run the
\* wrapped forward function on dx, grad_solve_ and the matrix or function arguments of
\* kwargs, with is_backprop set.
Backward(kwargs, dx, available) ==
    /\ calls' = calls
    /\ kwargs \in returned
    /\ gradient_solve(objects, kwargs.solve).raised = None
    /\ Len(gradient_solve(objects, kwargs.solve).objects) < MaxObjects
    /\ LET solve == kwargs.solve
           grad_solve == gradient_solve(objects, solve)
           x0 == GradientX0(grad_solve.objects[grad_solve.value[1]], grad_solve.objects[solve])
           grad_solve_ == copy_with(grad_solve.objects, grad_solve.value[1], [x0 |-> x0])
           call == [op |-> "backward", kind |-> kwargs.kind, matrix |-> kwargs.matrix,
                    y |-> dx, solve |-> grad_solve_.value, is_backprop |-> TRUE,
                    order |-> kwargs.order + 1, backend |-> kwargs.backend,
                    raised |-> None, forward |-> kwargs,
                    grad_solve |-> grad_solve.value[1], before |-> objects]
       IN  /\ objects' = grad_solve_.objects
           /\ SolveForward(grad_solve_.objects, grad_solve_.value, kwargs.backend, TRUE,
                           available, call)
           /\ entry' = call

\* the gradient solve a caller supplies: it comes with an initial guess
SuppliedGradientSolve ==
    Solve_init(Scalar("str", "CG"), Scalar("int", 0), Scalar("float", 1), Scalar("int", 1000),
               << TensorOf("x", "gradient guess") >>, {}, None, << >>, None, 1).value[1]

\* the Solve objects the caller has constructed: one Solve, with or without a
\* gradient solve supplied at construction
CallerObjects ==
    { << Solve_init(method, tol[1], tol[2], max_iterations, x0, suppress, hook, << >>, None, 1).value[1] >> :
        method \in MethodArgs, tol \in Tolerances, max_iterations \in Iterations, x0 \in X0s,
        suppress \in SUBSET Suppressible, hook \in Hooks }
    \cup
    { << SuppliedGradientSolve,
         Solve_init(method, tol[1], tol[2], max_iterations, x0, suppress, hook, << >>, Some(1), 2).value[1] >> :
        method \in MethodArgs, tol \in Tolerances, max_iterations \in Iterations, x0 \in X0s,
        suppress \in SUBSET Suppressible, hook \in Hooks }

InitCalls ==
    /\ tapes = [tape \in Tapes |-> SolveTape(TapeArgs[tape])]
    /\ _SOLVE_TAPES = << >>
    /\ scopes = << >>
    /\ owners = << >>
    /\ reentered = FALSE
    /\ pc = "idle"
    /\ cur = NoCall
    /\ last = NoCall
    /\ objects \in CallerObjects
    /\ entry = NoCall
    /\ returned = {}
    /\ calls = 0
    /\ concurrent = 0

NextCalls ==
    \/ \E tape \in Tapes : pc = "idle" /\ _SOLVE_TAPES = << >> /\ Enter("main", tape)
    \/ \E block \in 1..Len(scopes) : pc = "idle" /\ Exit("main", block)
    \/ \E block \in 1..Len(scopes) : Unwind(block)
    \/ Catch
    \/ \E self \in 1..Len(objects) : pc = "idle" /\ ReadGradientSolve(self)
    \/ \E self \in 1..Len(objects) :
          pc = "idle" /\ CallMinimize(self, "NumPy")
    \/ \E norm2 \in {0, 1, 3}, self \in 1..Len(objects) :
          pc = "idle" /\ CallSolveNonlinear(Target(norm2), self, "NumPy")
    \/ \E y \in { << TensorOf("y", "rhs") >>, << TensorOf("y", "rhs"), TensorOf("y2", "rhs") >> },
          self \in 1..Len(objects), kind \in {"matrix", "function"}, copies \in BOOLEAN :
          pc = "idle" /\ CallSolveLinear(y, self, kind, "NumPy", TRUE, copies)
    \/ \E kwargs \in returned :
          pc = "idle" /\ RoomToRecord /\ Backward(kwargs, << TensorOf("x", "dx") >>, TRUE)
    \/ ReadAny
    \/ AssertAvailable
    \/ BackendTests
    \/ /\ pc = "ran"
       /\ \E ret \in ConvergedReturns(cur.fn, cur.asked), t \in Times : TestTrj(ret, t)
    \/ ReadTapesForResidual
    \/ ComputeResidual
    \/ NextTape
    \/ AddToTape
    \/ CheckConvergence
    \/ Return

\* MaxCalls calls of minimize, solve_nonlinear or solve_linear on the caller's Solve
\* objects, and the backward passes through the linear solves that returned, of every
\* order that the heap has room for and at any later time.  One thread, which enters
\* and leaves tapes, reads gradient_solve and makes its calls between the solves only,
\* with at most one tape active; y and x0 are available and the backend converges.
SpecCalls == InitCalls /\ [][NextCalls]_vars

\* --------------------------------------------- threads and nested solves
NextInterleaved ==
    \/ \E thread \in Threads, tape \in Tapes : Enter(thread, tape)
    \/ \E thread \in Threads, block \in 1..Len(scopes) : Exit(thread, block)
    \/ \E block \in 1..Len(scopes) : Unwind(block)
    \/ Catch
    \/ Propagate
    \/ \E fn \in Functions, solve \in PlainSolves :
          /\ NothingRecorded
          /\ ReadTapes(fn, solve, "NumPy", FALSE, TRUE, None)
          /\ UNCHANGED << objects, entry, calls >>
    \/ ReadAny
    \/ AssertAvailable
    \/ BackendTests
    \/ /\ pc = "ran"
       /\ \E ret \in StepReturns(cur.fn, cur.asked), t \in Times : TestTrj(ret, t)
    \/ ReadTapesForResidual
    \/ ComputeResidual
    \/ NextTape
    \/ AddToTape
    \/ CheckConvergence
    \/ Return

\* Tapes are entered and left by two threads: by the other thread at any time, also
\* between any two lines of a running solve and while an exception propagates, and by
\* the thread of the solves in its caller and in the function being solved, which the
\* backend calls; that function also starts solves of its own, whose exceptions it
\* catches or lets pass.  Solves are started, by the caller or by that function, until
\* a tape holds a result; y and x0 are available.  MaxConcurrent bounds the calls of
\* __enter__ and __exit__ that are not made by the caller between its solves,
\* MaxNested the solves suspended at a time, and MaxDepth the tapes active at a time.
SpecInterleaved == Init /\ [][NextInterleaved]_vars

\* ================================================================ claims
\* The final step the backend reported for the solve recorded in `last`: the last of
\* the list of steps it returned when it was asked for the trajectory
Final(l) == IF l.asked THEN PyIndex(l.ret, -1) ELSE l.ret

\* `last` describes a solve that ran to its end: it returned, or raised a convergence error
Completed(l) ==
    l.op = "solve" /\ l.raised \in {None, Some(NotConverged), Some(Diverged)}

IsPrefix(s, t) == Len(s) <= Len(t) /\ SubSeq(t, 1, Len(s)) = s

\* `last` describes a solve that ran as in sequential code: from its first line to its
\* end no tape was entered or left, and the function being solved started no solve
Undisturbed(l) == l.op = "solve" /\ ~l.disturbed

C2_ActiveIsOpenScopesInOrder == _SOLVE_TAPES = scopes

\* C2, amended: the list of active tapes holds exactly the tapes whose scope is open,
\* each as often as it has open scopes, on every path (normal exit or an error raised
\* by a solve) and whichever thread or function enters and leaves them, and is empty
\* once every scope has been left; it lists them in entry order unless a tape has been
\* entered while it was already active since the list was last empty.
C2_ActiveIsOpenScopes ==
    /\ Len(_SOLVE_TAPES) = Len(scopes)
    /\ \A tape \in Tapes : Count(_SOLVE_TAPES, tape) = Count(scopes, tape)
    /\ ~reentered => _SOLVE_TAPES = scopes

\* a solve raised NotConverged under two nested tapes and the error has left the inner scope
C2_Witness ==
    /\ pc = "raising"
    /\ last.op = "solve"
    /\ last.raised = Some(NotConverged)
    /\ last.active = << 1, 2 >>
    /\ scopes = << 1 >>

\* ------------------------------------------------------------------- C3
\* C3: when a solve during which no tape is entered or left, and which the function
\* being solved does not suspend by a solve of its own, raises NotConverged or
\* Diverged, its result is already the newest entry of every active tape (in the form
\* that tape stores), so tape[-1] after the exception is the SolveInfo of the failed
\* solve.
C3_RecordedBeforeRaise ==
    (Undisturbed(last) /\ last.raised \in {Some(NotConverged), Some(Diverged)}) =>
        \A tape \in Range(last.active) :
            LET got == SolveTape_getitem_int(tapes[tape], -1)
            IN  /\ Len(tapes[tape].solves) > Len(last.before[tape].solves)
                /\ got.raised = None
                /\ got.value[1].solve = last.solve
                /\ got.value[1].converged = FlagTensor(Final(last).converged)
                /\ got.value[1].diverged = FlagTensor(Final(last).diverged)
                /\ got.value[1].msg = last.result.msg
                /\ got.value[1].x.traj = tapes[tape].record_trajectories

\* a linear solve raised Diverged while a snapshot tape and a trajectory tape were active
C3_Witness ==
    /\ Undisturbed(last)
    /\ last.fn = "solve_linear"
    /\ last.raised = Some(Diverged)
    /\ last.active = << 1, 2 >>
    /\ Len(tapes[1].solves) = 1
    /\ Len(tapes[2].solves) = 1

\* ------------------------------------------------------------------- C4
FlagsAvailable(l) == Final(l).converged.available /\ Final(l).diverged.available
AnyDiverged(l) == \E b \in Batch : Final(l).diverged.val[b]
AllConverged(l) == \A b \in Batch : Final(l).converged.val[b]

\* C4: with NotConverged suppressed and a backend result that is not converged (in
\* some batch element) and not diverged, a solve during which no tape is entered or
\* left, and which the function being solved does not suspend by a solve of its own,
\* returns, and returns the x of the backend's final step.
C4_SuppressedNotConvergedReturns ==
    (/\ Undisturbed(last)
     /\ NotConverged \in last.solve.suppress
     /\ FlagsAvailable(last)
     /\ ~AllConverged(last)
     /\ ~AnyDiverged(last)) =>
        /\ last.raised = None
        /\ last.x = Some(Tensor(Final(last).x))

\* such a solve with only NotConverged suppressed, recording a trajectory, not backprop
C4_Witness ==
    /\ Undisturbed(last)
    /\ last.solve.suppress = {NotConverged}
    /\ last.trj
    /\ ~last.only_warn
    /\ FlagsAvailable(last)
    /\ ~AllConverged(last)
    /\ ~AnyDiverged(last)
    /\ last.x = Some(Tensor(IterateX(MaxSteps)))

\* ------------------------------------------------------------------- C5
\* C5 as stated: with Diverged suppressed and a diverged backend result, the solve
\* returns the x of the backend's final step and raises no convergence error,
\* whatever the converged flags are.
C5_SuppressedDivergedReturns ==
    (/\ last.op = "solve"
     /\ Diverged \in last.solve.suppress
     /\ FlagsAvailable(last)
     /\ AnyDiverged(last)) =>
        /\ last.raised = None
        /\ last.x = Some(Tensor(Final(last).x))

\* ------------------------------------------------------------------- C6
\* a convergence failure whose kind is not suppressed
UnsuppressedDiverged(l) == FlagsAvailable(l) /\ AnyDiverged(l) /\ Diverged \notin l.solve.suppress
UnsuppressedNotConverged(l) ==
    FlagsAvailable(l) /\ ~AllConverged(l) /\ NotConverged \notin l.solve.suppress

\* the backend names that hold 'TensorFlow', as the whole name or within it
TensorFlowNames == {"TensorFlow", "MyTensorFlowBackend"}

BackwardOnTensorFlow(l) ==
    l.fn = "solve_linear" /\ l.is_backprop /\ l.backend \in TensorFlowNames

\* C6: in a solve during which no tape is entered or left, and which the function
\* being solved does not suspend by a solve of its own, an unsuppressed convergence
\* failure only warns (one ConvergenceWarning per unsuppressed kind, nothing raised, x
\* returned) exactly when the solve is a backward-pass linear solve on a backend whose
\* name holds 'TensorFlow'; in every other case, every minimize call included, it
\* raises Diverged (when divergence is the unsuppressed failure) or else NotConverged,
\* without a warning.
C6_WarnOnlyOnTensorFlowBackward ==
    (Undisturbed(last) /\ (UnsuppressedDiverged(last) \/ UnsuppressedNotConverged(last))) =>
        IF BackwardOnTensorFlow(last)
        THEN /\ last.raised = None
             /\ last.x = Some(Tensor(Final(last).x))
             /\ last.convergence_warnings =
                    (IF UnsuppressedDiverged(last) THEN 1 ELSE 0)
                    + (IF UnsuppressedNotConverged(last) THEN 1 ELSE 0)
        ELSE /\ last.raised = (IF UnsuppressedDiverged(last) THEN Some(Diverged)
                               ELSE Some(NotConverged))
             /\ last.x = None
             /\ last.convergence_warnings = 0

\* a diverged backward-pass linear solve that only warned, on a backend whose name
\* holds 'TensorFlow' within it
C6_Witness ==
    /\ Undisturbed(last)
    /\ BackwardOnTensorFlow(last)
    /\ last.backend = "MyTensorFlowBackend"
    /\ UnsuppressedDiverged(last)
    /\ last.raised = None
    /\ last.convergence_warnings >= 1

\* ------------------------------------------------------------------- C7
\* C7: when converged or diverged is not available at check time, a solve during
\* which no tape is entered or left, and which the function being solved does not
\* suspend by a solve of its own, neither raises nor warns, for every suppress set and
\* on forward and backward passes alike, and returns x; a message the backend left
\* empty stays empty.
C7_UnavailableFlagsSkipCheck ==
    (Undisturbed(last) /\ ~FlagsAvailable(last)) =>
        /\ last.raised = None
        /\ last.convergence_warnings = 0
        /\ last.x = Some(Tensor(Final(last).x))
        /\ last.result.msg = Final(last).message

\* a backward-pass solve on TensorFlow whose diverged flags are set and available
\* while its converged flags are not available, with nothing suppressed
C7_Witness ==
    /\ Undisturbed(last)
    /\ last.only_warn
    /\ last.solve.suppress = {}
    /\ ~Final(last).converged.available
    /\ Final(last).diverged.available
    /\ AnyDiverged(last)
    /\ Final(last).message = ""
    /\ last.result.msg = ""
    /\ last.raised = None

\* ------------------------------------------------------------------- C8
\* the tape holds a result of a solve with the id of solve
HoldsId(self, solve) == \E i \in 1..Len(self.solve_ids) : self.solve_ids[i] = solve.id

\* C8 as stated: a solve recorded into a tape does not fail in the recording and
\* leaves tape[0] the first recorded result; the first solve with an id issues no
\* duplicate warning, and the second solve with that id, recorded into the one tape
\* that holds the first, issues exactly one.
C8_DuplicateWarnsOnce ==
    (last.op = "solve" /\ last.active # << >>) =>
        /\ last.raised # Some(AssertionError)
        /\ \A tape \in Range(last.active) :
              Len(last.before[tape].solves) > 0 =>
                  SolveTape_getitem_int(tapes[tape], 0) = SolveTape_getitem_int(last.before[tape], 0)
        /\ (\A tape \in Range(last.active) : ~HoldsId(last.before[tape], last.solve)) =>
              last.duplicate_warnings = 0
        /\ \A tape \in Tapes :
              (/\ Range(last.active) = {tape}
               /\ Count(last.before[tape].solve_ids, last.solve.id) = 1) =>
                  last.duplicate_warnings = 1

\* C8, amended: every recording of a result into a tape (one call of _add) issues one
\* duplicate warning if the tape holds a result of a solve with the same id already,
\* and none if it holds none; it appends the result and the id, leaves the entries
\* the tape had as they were, tape[0] among them, and does not raise, unless tapes
\* were entered or left during the solve.  So two solves with one id under a tape
\* that is active once give no warning and then one, and a tape that is entered twice
\* is recorded into twice by each solve and warns for the first solve already.
C8_AddWarnsPerDuplicate ==
    [][(pc = "add" /\ pc' # "add") =>
          LET self == tapes[cur.tape]
              due == cur.duplicate_warnings + (IF HoldsId(self, cur.solve) THEN 1 ELSE 0)
          IN  IF pc' = "raising"
              THEN /\ cur.disturbed
                   /\ last'.duplicate_warnings = due
                   /\ tapes' = tapes
              ELSE /\ pc' = "record"
                   /\ cur'.duplicate_warnings = due
                   /\ Len(tapes'[cur.tape].solves) = Len(self.solves) + 1
                   /\ IsPrefix(self.solves, tapes'[cur.tape].solves)
                   /\ PyIndex(tapes'[cur.tape].solves, -1).solve = cur.solve
                   /\ tapes'[cur.tape].solve_ids = Append(self.solve_ids, cur.solve.id)
                   /\ Len(self.solves) > 0 =>
                         SolveTape_getitem_int(tapes'[cur.tape], 0) = SolveTape_getitem_int(self, 0)
                   /\ \A other \in Tapes \ {cur.tape} : tapes'[other] = tapes[other]]_vars

\* the second of two solves with the same spec id under a tape entered once has
\* returned with one warning, the tape's first entry being the first solve's result
C8_Witness ==
    /\ last.op = "solve"
    /\ last.raised = None
    /\ last.active = << 1 >>
    /\ Len(last.before[1].solves) = 1
    /\ Len(tapes[1].solves) = 2
    /\ tapes[1].solves[1] = last.before[1].solves[1]
    /\ tapes[1].solves[1].solve.id = tapes[1].solves[2].solve.id
    /\ last.duplicate_warnings = 1

\* ------------------------------------------------------------------- C9
\* C9 as stated: tape[solve] returns the first stored result with the id of solve,
\* also when a later result has the same id, and raises KeyError when none has it.
C9_LookupFirstWins ==
    last.op = "getitem" =>
        LET self == tapes[last.tape]
            hits == { i \in 1..Len(self.solves) : self.solves[i].solve.id = last.item.id }
        IN  IF hits = {} THEN last.out.raised = Some("KeyError")
            ELSE /\ last.out.raised = None
                 /\ last.out.value = Some(self.solves[CHOOSE i \in hits : \A j \in hits : i <= j])

\* ------------------------------------------------------------------ C10
\* the newest entry of the tape is the result of the solve l, in the form that a tape
\* of that mode stores
HoldsRecordOf(tape, l) ==
    /\ Len(tapes[tape].solves) > Len(l.before[tape].solves)
    /\ LET e == PyIndex(tapes[tape].solves, -1)
       IN  /\ e.solve = l.solve
           /\ IF tapes[tape].record_trajectories
              THEN /\ l.asked
                   /\ e.x = Stack([k \in 1..MaxSteps |-> l.ret[k].x])
                   /\ e.residual = Stack([k \in 1..MaxSteps |-> l.ret[k].residual[1]])
                   /\ e.function_evaluations =
                          Stack([k \in 1..MaxSteps |-> l.ret[k].function_evaluations])
              ELSE /\ e.x = Tensor(Final(l).x)
                   /\ ~e.residual.traj
                   /\ e.function_evaluations = Tensor(Final(l).function_evaluations)
                   /\ ~e.iterations.traj /\ ~e.converged.traj /\ ~e.diverged.traj

C11_EveryFieldAlongTrajectory ==
    (last.op = "solve" /\ last.trj /\ FlagsAvailable(last)) =>
        /\ \A field \in {"x", "residual", "iterations", "function_evaluations",
                         "converged", "diverged"} : last.result[field].traj
        /\ \A index \in {0, -1} :
              LET taken == snapshot(last.result, index)
                  snap == taken.value[1]
                  step == PyIndex(last.ret, index)
              IN  /\ taken.raised = None
                  /\ snap.x = Tensor(step.x)
                  /\ snap.residual = Tensor(step.residual[1])
                  /\ snap.iterations = Tensor(step.iterations)
                  /\ snap.function_evaluations = Tensor(step.function_evaluations)
                  /\ snap.converged = FlagTensor(step.converged)
                  /\ snap.diverged = FlagTensor(step.diverged)
                  /\ snap.solve = last.result.solve
                  /\ snap.method = last.result.method
                  /\ snap.msg = last.result.msg
                  /\ snap.solve_time = last.result.solve_time

\* ------------------------------------------------------------------ C12
\* the attributes a gradient solve shares with the Solve it was derived from
SharedAttrs == {"method", "relative_tolerance", "absolute_tolerance", "max_iterations",
                "suppress", "preprocess_y", "preprocess_y_args"}

\* C12: reading gradient_solve of a Solve whose gradient solve is unset creates one
\* new Solve with the same method, tolerances, max_iterations, suppress and
\* preprocess_y, an id no other Solve has, x0 = None and no gradient solve of its own,
\* and stores it in the Solve, changing nothing else; reading a gradient solve that is
\* set (supplied at construction or created by an earlier read) returns it and changes
\* nothing; and a gradient solve, once set, is never replaced by any step.
C12_GradientSolveFilledOnce ==
    /\ [](entry.op = "gradient_solve" =>
            LET self == entry.self
                old == entry.before
                out == entry.out[1]
            IN  IF old[self]._gradient_solve = None
                THEN /\ entry.raised = None
                     /\ out = Len(old) + 1
                     /\ Len(objects) = Len(old) + 1
                     /\ \A attr \in SharedAttrs : objects[out][attr] = old[self][attr]
                     /\ objects[out].x0 = None
                     /\ objects[out]._gradient_solve = None
                     /\ \A i \in 1..Len(old) : objects[out].id # old[i].id
                     /\ objects[self] = [old[self] EXCEPT !._gradient_solve = Some(out)]
                     /\ \A i \in 1..Len(old) : i # self => objects[i] = old[i]
                ELSE /\ entry.raised = None
                     /\ out = old[self]._gradient_solve[1]
                     /\ objects = old)
    /\ [][\A i \in 1..Len(objects) :
              objects[i]._gradient_solve # None =>
                  /\ Len(objects') >= Len(objects)
                  /\ objects'[i]._gradient_solve = objects[i]._gradient_solve]_vars

\* gradient_solve was read a second time on a Solve with an initial guess, returning
\* the Solve the first read created
C12_Witness ==
    /\ entry.op = "gradient_solve"
    /\ entry.before[entry.self].x0 # None
    /\ entry.before[entry.self]._gradient_solve # None
    /\ entry.out[1] > entry.self
    /\ objects[entry.out[1]].x0 = None
    /\ objects[entry.out[1]].id # objects[entry.self].id

\* ------------------------------------------------------------------ C13
\* the call that entry describes violates a structural precondition of its entry point
StructuralViolation ==
    \/ /\ entry.op = "minimize"
       /\ \/ objects[entry.solve].relative_tolerance.val # 0
          \/ objects[entry.solve].preprocess_y # None
    \/ /\ entry.op = "solve_linear"
       /\ \/ Len(objects[entry.solve].x0) # 1
          \/ Len(entry.y) # 1

\* C13: minimize with a relative tolerance other than zero or with a preprocess hook,
\* and solve_linear with an x0 or a y that is not exactly one tensor, raise an
\* AssertionError for every suppress set (every set of ConvergenceException,
\* NotConverged and Diverged); no backend call is made for them and the tapes, active
\* or not, are left as they were.
C13_StructuralViolationsAreFatal ==
    StructuralViolation =>
        /\ entry.raised = Some(AssertionError)
        /\ pc # "backend"
        /\ cur = NoCall
        /\ tapes = entry.tapes
        /\ last # NoCall =>
              /\ last.op = "precondition"
              /\ last.raised = Some(AssertionError)
              /\ tapes = last.before

\* minimize was called under an active tape with a relative tolerance, no hook, and
\* both convergence errors suppressed
C13_Witness ==
    /\ entry.op = "minimize"
    /\ objects[entry.solve].relative_tolerance.val # 0
    /\ objects[entry.solve].preprocess_y = None
    /\ objects[entry.solve].suppress = {NotConverged, Diverged}
    /\ _SOLVE_TAPES # << >>
    /\ pc = "raising"
    /\ entry.raised = Some(AssertionError)

\* ------------------------------------------------------------------ C14
\* C14 as stated: the absolute tolerance solve_nonlinear hands to the minimizer is
\* max(relative_tolerance * norm(y), absolute_tolerance) of the caller's Solve, with
\* the norm being the l2_loss of the preprocessed y, and so is never below the
\* caller's absolute_tolerance.
C14_ToleranceIsMax ==
    entry.op = "solve_nonlinear" =>
        LET rel == entry.caller.relative_tolerance.val * l2_loss(entry.y)
            abs == entry.caller.absolute_tolerance.val
            handed == objects[entry.min_solve].absolute_tolerance.val
        IN  /\ handed = (IF rel > abs THEN rel ELSE abs)
            /\ handed >= abs
            /\ entry.atol # None => entry.atol[1] = objects[entry.min_solve].absolute_tolerance

\* ------------------------------------------------------------------ C15
\* C15 as stated: solve_nonlinear hands minimize a Solve of its own making, with relative
\* tolerance zero and no preprocess hook, so that minimize passes its two assertions
\* and reaches the backend for every Solve of the caller; the hook, when the caller
\* set one, has been applied to y once; and the caller's Solve keeps its tolerances and
\* its hook.
C15_NonlinearDelegatesToMinimize ==
    entry.op = "solve_nonlinear" =>
        /\ entry.raised = None
        /\ entry.atol # None
        /\ entry.min_solve # entry.solve
        /\ objects[entry.min_solve].relative_tolerance.val = 0
        /\ objects[entry.min_solve].preprocess_y = None
        /\ entry.y.applied = (IF entry.caller.preprocess_y # None THEN 1 ELSE 0)
        /\ \A attr \in {"relative_tolerance", "absolute_tolerance", "preprocess_y"} :
              objects[entry.solve][attr] = entry.caller[attr]
        /\ pc = "backend" =>
              /\ cur.fn = "minimize"
              /\ cur.solve = CoreSolve(objects[entry.min_solve])

TrajectoryTapesHoldTrajectories ==
    \A tape \in Tapes :
        tapes[tape].record_trajectories =>
            \A i \in 1..Len(tapes[tape].solves) : tapes[tape].solves[i].x.traj

\* no solve has failed the assertion of SolveTape._add
AddAssertionHeld ==
    last.op = "solve" => last.failed_assertion # "Solve did not record a trajectory"

\* C17 as stated: a trajectory-mode tape never receives a result without a
\* trajectory, and no solve fails the assertion of SolveTape._add that says so,
\* whenever tapes are entered and left, also between the solve's reading of the
\* trajectory flag and its recording.
C17_TrajectoryAssertionNeverFails ==
    TrajectoryTapesHoldTrajectories /\ AddAssertionHeld

====
